---- MODULE Spec2Model ----
(***************************************************************************)
(* A model of python-plantsim: the PlantSim session (plantsim.py), the     *)
(* parallel run worker (_internal.py), the table mapping (_dataframe.py),  *)
(* the license error code (error.py) and the batch records                 *)
(* (simulation_data.py).  The Plant Simulation COM server is the           *)
(* environment: each call on it either returns or raises a com_error.      *)
(***************************************************************************)
EXTENDS Integers, Sequences, FiniteSets, TLC

(***************************************************************************)
(* Bounds of the model.                                                    *)
(***************************************************************************)
\* How many calls the methods of a session other than initialize() forward to
\* the COM server.
MaxForwards == 1

\* The processes of the pool (max_workers), and how many times
\* IsSimulationRunning answers True before it answers False.
MaxWorkers == 2
MaxPolls == 1

\* How many times iter() is called on one SimulationData.
MaxPasses == 2

\* Calls of get_value, set_value, execute_simtalk and quit on one session.
MaxUses == 2

\* Calls of run_simulation on one session.
MaxRuns == 1

(***************************************************************************)
(* Python values.                                                          *)
(***************************************************************************)
\* None, as an Optional[str] field holds it; str(None) is "None".
None == "None"

\* Truthiness of an Optional[str]: None and '' are falsy.
Truthy(v) == v # None /\ v # ""

\* f'{a}.{b}'
Dotted(a, b) == a \o "." \o b

\* Python values, by type: an int, a str, None.
PyInt(n) == [t |-> "int", i |-> n, s |-> ""]
PyStr(x) == [t |-> "str", i |-> 0, s |-> x]
PyNone == [t |-> "NoneType", i |-> 0, s |-> ""]
PyBool(b) == [t |-> "bool", i |-> IF b THEN 1 ELSE 0, s |-> ""]

\* bool(v) of such a value: None, 0, False and '' are false.
PyTruthy(v) == IF v.t = "str" THEN v.s # "" ELSE v.i # 0

\* == between an int and an Enum member (Enum, not IntEnum): int.__eq__ gives
\* NotImplemented for the other type, Enum falls back to identity.
PyEq(a, b) == a.t = b.t /\ a.i = b.i /\ a.s = b.s

(***************************************************************************)
(* error.py                                                                *)
(***************************************************************************)
INVALID_LICENSE_VALUE == -2147221503

\* Error.Code.INVALID_LICENSE, the Enum member itself.
INVALID_LICENSE == [t |-> "Error.Code", i |-> INVALID_LICENSE_VALUE, s |-> "INVALID_LICENSE"]

\* Error.extract(args): args[2][5], 0-based.
Extract(args) == args[3][6]

(***************************************************************************)
(* Exceptions, and the faults of the COM server.                           *)
(***************************************************************************)
Exc(type, payload) == [type |-> type, payload |-> payload]

NoExc == Exc("ok", <<>>)

\* pywintypes.com_error: args = (hresult, strerror, excepinfo, argerror), with
\* excepinfo = (wcode, source, text, helpFile, helpId, scode) or None (here <<>>).
ComError(scode) ==
    Exc("com_error", <<-2147352567, "Exception occurred.",
                       <<0, "Plant Simulation", "fault", "", 0, PyInt(scode)>>, None>>)

ComErrorNoInfo == Exc("com_error", <<-2147023174, "RPC server unavailable", <<>>, None>>)

\* An scode that is not the invalid-license code.
OtherScode == INVALID_LICENSE_VALUE + 1

InvalidLicenseFault == ComError(INVALID_LICENSE_VALUE)

OtherFault == ComError(OtherScode)

Faults == {InvalidLicenseFault, OtherFault, ComErrorNoInfo}

\* What SetLicenseType does: returns (NoExc) or raises one of Faults.  The code
\* looks into the fault of this call only.
LicenseOutcomes == {NoExc} \cup Faults

\* What any other call on the COM server does: returns, or raises a fault.
EndpointOutcomes == {NoExc, OtherFault}

\* InvalidLicenseError(license_type): keeps the license type.
InvalidLicenseError(lt) == Exc("InvalidLicenseError", <<lt>>)

\* CommandOrderError(command, prerequisite).
CommandOrderError(command, prerequisite) == Exc("CommandOrderError", <<command, prerequisite>>)

\* Calling a method on self._plantsim while it is None.
AttributeError == Exc("AttributeError", <<"NoneType">>)

(***************************************************************************)
(* The session: PlantSim.                                                  *)
(***************************************************************************)
VARIABLES
    license_type,       \* self._license_type
    visible,            \* self._visible
    trust_models,       \* self._trust_models
    path_context,       \* self._path_context
    event_controller,   \* self._event_controller
    model,              \* self._model
    plantsim,           \* self._plantsim: None or the handle
    calls,              \* the calls issued to win32com / the COM server, in order
    outcome             \* the last operation, its argument and what it raised

sessionVars == <<license_type, visible, trust_models, path_context,
                 event_controller, model, plantsim, calls, outcome>>

(***************************************************************************)
(* run_simulations_in_parallel: the pool, its workers and the collection.  *)
(***************************************************************************)
VARIABLES
    batch,              \* "idle", "collecting", "returned" or "raised"
    pool_params,        \* the parameter tuples built at submission
    results,            \* the list run_simulations_in_parallel returns
    order,              \* the futures whose result was appended, in that order
    reported,           \* what the except branch printed: the <<record, exception>> pairs
    collected,          \* the futures as_completed has yielded
    wpc,                \* per worker: the call it makes next, or how it ended
    wcalls,             \* per worker: the calls it issued, in order
    wdata,              \* per worker: its copy of the SimulationData
    wresults,           \* per worker: the local list `results`
    wraised,            \* per worker: the exception that left the function
    wreturn             \* per worker: the SimulationResult it returned

batchVars == <<batch, pool_params, results, order, reported, collected,
               wpc, wcalls, wdata, wresults, wraised, wreturn>>

(***************************************************************************)
(* get_table / set_table against a table of the COM server.                *)
(***************************************************************************)
VARIABLES
    store,              \* the COM server: the value GetValue returns for each name
    data_frame,         \* the DataFrame the caller writes
    table,              \* the DataFrame get_table returned last, or None
    tcalls,             \* the calls the last table operation issued, in order
    tlast               \* the last two table operations and what the last raised

tableVars == <<store, data_frame, table, tcalls, tlast>>

(***************************************************************************)
(* Iteration over a SimulationData.                                        *)
(***************************************************************************)
VARIABLES
    sd,                 \* the SimulationData object
    yielded,            \* the pairs __next__ returned since the last iter()
    passes,             \* how many times iter() was called
    ilast               \* what the last call did: "init", "iter", "item", "StopIteration"

iterVars == <<sd, yielded, passes, ilast>>

vars == <<sessionVars, batchVars, tableVars, iterVars>>

\* What each part leaves alone.
notSession == <<batchVars, tableVars, iterVars>>
notBatch == <<sessionVars, tableVars, iterVars>>
notTable == <<sessionVars, batchVars, iterVars>>
notIter == <<sessionVars, batchVars, tableVars>>

\* The handle EnsureDispatch returns.
Handle == "com_object"

dispatch_string == "Tecnomatix.PlantSimulation.RemoteControl"

LicenseTypes == {"Professional", "Student"}

\* Files: the one that os.path.exists finds and one it does not.
ExistingPaths == {"model.spp"}
Paths == {"model.spp", "missing.spp"}

PathContexts == {None, "", ".Models.Model"}

ControllerNames == {"EventController", "Ctl"}

\* What a call did: returned a value, or raised.
Returned(v) == [t |-> "return", v |-> v]
Raised(e) == [t |-> "raise", e |-> e]
Result(e) == IF e = NoExc THEN Returned(None) ELSE Raised(e)

\* One recorded call: the verb, its arguments and what it did.
Call(verb, args, ret) == [verb |-> verb, args |-> args, ret |-> ret]

\* The calls of initialize().
InitializeVerbs == {"EnsureDispatch", "SetLicenseType", "LoadModel", "SetPathContext",
                    "SetTrustModels", "SetVisible"}

\* How many times the trace shows initialize(), and how many forwarded calls.
Initializes == Cardinality({i \in DOMAIN calls : calls[i].verb = "EnsureDispatch"})
Forwards == Cardinality({i \in DOMAIN calls : calls[i].verb \notin InitializeVerbs})

Outcome(op, arg, exc) == [op |-> op, arg |-> arg, exc |-> exc]

\* PlantSim.__init__, followed by the trust_models setter (a plain assignment
\* of the flag given).
SessionInit ==
    /\ license_type \in LicenseTypes
    /\ visible = FALSE
    /\ trust_models \in BOOLEAN
    /\ path_context = None
    /\ event_controller = None
    /\ model = None
    /\ plantsim = None
    /\ calls = <<>>
    /\ outcome = Outcome("__init__", <<>>, NoExc)

\* The except block around SetLicenseType: the exception that leaves it (NoExc
\* when the fault is swallowed).
InitializeLicenseExcept(e, lt) ==
    IF Len(e.payload[3]) = 0 THEN Exc("TypeError", <<"NoneType">>)
    ELSE IF PyEq(Extract(e.payload), INVALID_LICENSE) THEN InvalidLicenseError(lt)
    ELSE NoExc

\* The run of initialize(): the calls it issues, the handle and what it raises,
\* given what the dispatch and SetLicenseType do and which later call, if any,
\* raises which fault.
InitializeRun(dispatched, lic, failAt, fault) ==
    LET At(verb) == IF failAt = verb THEN Raised(fault) ELSE Returned(None)
        c0 == Append(calls, Call("EnsureDispatch", <<dispatch_string>>,
                                 IF dispatched THEN Returned(Handle)
                                 ELSE Raised(Exc("Exception", <<"dispatch">>))))
        c1 == Append(c0, Call("SetLicenseType", <<license_type>>, Result(lic)))
        c2 == Append(c1, Call("LoadModel", <<model>>, At("LoadModel")))
        c3 == Append(c2, Call("SetPathContext", <<path_context>>, At("SetPathContext")))
        c4 == IF trust_models
              THEN Append(c3, Call("SetTrustModels", <<TRUE>>, At("SetTrustModels")))
              ELSE c3
        c5 == IF visible
              THEN Append(c4, Call("SetVisible", <<TRUE>>, At("SetVisible")))
              ELSE c4
        licExc == IF lic = NoExc THEN NoExc ELSE InitializeLicenseExcept(lic, license_type)
        R(c, h, e) == [calls |-> c, plantsim |-> h, exc |-> e]
    IN  IF ~dispatched THEN R(c0, plantsim, Exc("RuntimeError", <<"dispatch">>))
        ELSE IF licExc # NoExc THEN R(c1, Handle, licExc)
        ELSE IF failAt = "LoadModel" THEN R(c2, Handle, fault)
        ELSE IF failAt = "SetPathContext" THEN R(c3, Handle, fault)
        ELSE IF trust_models /\ failAt = "SetTrustModels" THEN R(c4, Handle, fault)
        ELSE IF visible /\ failAt = "SetVisible" THEN R(c5, Handle, fault)
        ELSE R(c5, Handle, NoExc)

\* The calls of initialize() after SetLicenseType, one of which may raise.
LaterCalls == {"none", "LoadModel", "SetPathContext", "SetTrustModels", "SetVisible"}

\* A session is initialized once.
initialize ==
    /\ UNCHANGED notSession
    /\ Initializes = 0
    /\ \E dispatched \in BOOLEAN, lic \in LicenseOutcomes, failAt \in LaterCalls,
          fault \in EndpointOutcomes \ {NoExc} :
          LET r == InitializeRun(dispatched, lic, failAt, fault)
          IN  /\ calls' = r.calls
              /\ plantsim' = r.plantsim
              /\ outcome' = Outcome("initialize", <<>>, r.exc)
    /\ UNCHANGED <<license_type, visible, trust_models, path_context,
                   event_controller, model>>

\* model.setter
set_model(path) ==
    /\ UNCHANGED notSession
    /\ IF path \notin ExistingPaths
       THEN /\ outcome' = Outcome("set_model", <<path>>, Exc("FileNotFoundError", <<path>>))
            /\ UNCHANGED model
       ELSE /\ model' = path
            /\ outcome' = Outcome("set_model", <<path>>, NoExc)
    /\ UNCHANGED <<license_type, visible, trust_models, path_context,
                   event_controller, plantsim, calls>>

\* path_context.setter
set_path_context(value) ==
    /\ UNCHANGED notSession
    /\ path_context' = value
    /\ outcome' = Outcome("set_path_context", <<value>>, NoExc)
    /\ UNCHANGED <<license_type, visible, trust_models, event_controller,
                   model, plantsim, calls>>

\* A guard that tests `self._path_context is None` only.
EventControllerRefusedIsNone == path_context = None

\* The guard of event_controller.setter: `not self._path_context`.
EventControllerRefused == ~Truthy(path_context)

\* event_controller.setter
set_event_controller(value) ==
    /\ UNCHANGED notSession
    /\ IF EventControllerRefused
       THEN /\ outcome' = Outcome("set_event_controller", <<value>>,
                                  CommandOrderError("set_event_controller", "set_path_context"))
            /\ UNCHANGED event_controller
       ELSE /\ event_controller' = Dotted(path_context, value)
            /\ outcome' = Outcome("set_event_controller", <<value>>, NoExc)
    /\ UNCHANGED <<license_type, visible, trust_models, path_context,
                   model, plantsim, calls>>

\* A method that forwards one call to self._plantsim: with no handle the
\* attribute lookup on None raises and nothing is issued.
Forward(op, verb, args) ==
    /\ UNCHANGED notSession
    /\ Forwards < MaxForwards
    /\ IF plantsim = None
       THEN /\ outcome' = Outcome(op, args, AttributeError)
            /\ UNCHANGED calls
       ELSE \E e \in EndpointOutcomes :
                /\ calls' = Append(calls, Call(verb, args, Result(e)))
                /\ outcome' = Outcome(op, args, e)
    /\ UNCHANGED <<license_type, visible, trust_models, path_context,
                   event_controller, model, plantsim>>

start_simulation == Forward("start_simulation", "StartSimulation", <<event_controller>>)

reset_simulation == Forward("reset_simulation", "ResetSimulation", <<event_controller>>)

\* The verbs of get_value, set_value, execute_simtalk and quit, and how many
\* of them the trace shows.
UseVerbs == {"GetValue", "SetValue", "ExecuteSimTalk", "Quit"}
Uses == Cardinality({i \in DOMAIN calls : calls[i].verb \in UseVerbs})

\* What callers pass: a command, the parameter (None when not supplied, and
\* the falsy and truthy values of each kind), an object name, a value.
Commands == {"foo"}
Parameters == {PyNone, PyInt(0), PyBool(FALSE), PyStr(""), PyStr("p")}
ObjectNames == {"Var"}
Values == {PyInt(7)}

\* One call on self._plantsim made by get_value, set_value, execute_simtalk
\* or quit: with no handle the attribute lookup on None raises and nothing
\* is issued; otherwise the call returns `ret` or raises.
Use(op, given, verb, args, ret) ==
    /\ UNCHANGED notSession
    /\ Uses < MaxUses
    /\ IF plantsim = None
       THEN /\ outcome' = Outcome(op, given, AttributeError)
            /\ UNCHANGED calls
       ELSE \E e \in EndpointOutcomes :
                /\ calls' = Append(calls, Call(verb, args,
                                               IF e = NoExc THEN Returned(ret) ELSE Raised(e)))
                /\ outcome' = Outcome(op, given, e)
    /\ UNCHANGED <<license_type, visible, trust_models, path_context,
                   event_controller, model, plantsim>>

get_value(object_name) ==
    \E value \in Values : Use("get_value", <<object_name>>, "GetValue", <<object_name>>, value)

set_value(object_name, value) ==
    Use("set_value", <<object_name, value>>, "SetValue", <<object_name, value>>, None)

\* The command string with the two prefixes exchanged.
CommandStringSwapped(command_string, from_path_context) ==
    IF from_path_context THEN "." \o command_string
    ELSE Dotted(path_context, command_string)

\* The command string execute_simtalk builds.
CommandString(command_string, from_path_context) ==
    IF from_path_context THEN Dotted(path_context, command_string)
    ELSE "." \o command_string

\* execute_simtalk: `if parameter:` decides whether the parameter is passed.
execute_simtalk(command_string, parameter, from_path_context) ==
    LET cmd == CommandString(command_string, from_path_context)
    IN  Use("execute_simtalk", <<command_string, parameter, from_path_context>>,
            "ExecuteSimTalk",
            IF PyTruthy(parameter) THEN <<cmd, parameter>> ELSE <<cmd>>, None)

\* quit: the handle stays in self._plantsim.
quit == Use("quit", <<>>, "Quit", <<>>, None)

\* What GetValue returns.
ReturnValues == {PyInt(1), PyInt(2)}

\* The tuples (input_variable, value, output_variable) given to run_simulation.
SerialData == {<<"Input1", PyInt(3), "Out1">>}

\* The calls of a run that reads the output right after the start and polls
\* afterwards.
RunCallsReadBeforePolling(data, polls, value) ==
    << Call("SetValue", <<data[1], data[2]>>, Returned(None)),
       Call("StartSimulation", <<event_controller>>, Returned(None)),
       Call("GetValue", <<data[3]>>, Returned(value)) >>
    \o [k \in 1..polls |-> Call("IsSimulationRunning", <<>>, Returned(TRUE))]
    \o << Call("IsSimulationRunning", <<>>, Returned(FALSE)),
          Call("ResetSimulation", <<event_controller>>, Returned(None)) >>

\* The calls of a run_simulation in which every call returns: the loop is told
\* `polls` times that the simulation runs, GetValue returns `value`.
RunCalls(data, polls, value) ==
    << Call("SetValue", <<data[1], data[2]>>, Returned(None)),
       Call("StartSimulation", <<event_controller>>, Returned(None)) >>
    \o [k \in 1..polls |-> Call("IsSimulationRunning", <<>>, Returned(TRUE))]
    \o << Call("IsSimulationRunning", <<>>, Returned(FALSE)),
          Call("GetValue", <<data[3]>>, Returned(value)),
          Call("ResetSimulation", <<event_controller>>, Returned(None)) >>

\* The calls when the n-th of them raises: the exception leaves run_simulation.
Failing(cs, n) == Append(SubSeq(cs, 1, n - 1), [cs[n] EXCEPT !.ret = Raised(OtherFault)])

\* How many times the trace shows run_simulation.
Runs == Cardinality({i \in DOMAIN calls : calls[i].verb = "SetValue"})

\* run_simulation: set_value, start_simulation, the polling loop, get_value,
\* reset_simulation; with no handle the first of them raises.
run_simulation(data) ==
    /\ UNCHANGED notSession
    /\ Runs < MaxRuns
    /\ IF plantsim = None
       THEN /\ outcome' = Outcome("run_simulation", data, AttributeError)
            /\ UNCHANGED calls
       ELSE \E polls \in 0..MaxPolls, value \in ReturnValues :
               LET cs == RunCalls(data, polls, value)
               IN  \/ /\ calls' = calls \o cs
                      /\ outcome' = Outcome("run_simulation", data, NoExc)
                   \/ \E n \in DOMAIN cs :
                         /\ calls' = calls \o Failing(cs, n)
                         /\ outcome' = Outcome("run_simulation", data, OtherFault)
    /\ UNCHANGED <<license_type, visible, trust_models, path_context,
                   event_controller, model, plantsim>>

(***************************************************************************)
(* simulation_data.py                                                      *)
(***************************************************************************)
\* SimulationData.__init__
SimulationData(input_variables, values, output_variables) ==
    [input_variables |-> input_variables, values |-> values,
     output_variables |-> output_variables, index |-> 0]

\* An __iter__ that returns self and leaves the index where it is.
DataIterKeepsIndex(d) == d

\* SimulationData.__iter__: returns self with the index back at 0.
DataIter(d) == [d EXCEPT !.index = 0]

\* SimulationData.__next__: whether it returns a pair (or raises StopIteration),
\* the pair it returns, and self afterwards.
DataHasNext(d) == d.index < Len(d.input_variables)
DataItem(d) == <<d.input_variables[d.index + 1], d.values[d.index + 1]>>
DataAdvance(d) == [d EXCEPT !.index = @ + 1]

\* SimulationData.get_output_variables
get_output_variables(d) == d.output_variables

\* SimulationResult.__init__
SimulationResult(output_variables, values) ==
    [output_variables |-> output_variables, values |-> values]

(***************************************************************************)
(* _internal.py: _run_simulation_worker, one process per record.           *)
(***************************************************************************)
\* The records a caller submits: one input and two outputs, two inputs and one
\* output, no input at all.
AllRecords ==
    << SimulationData(<<"Input1">>, <<PyInt(3)>>, <<"Out1", "Out2">>),
       SimulationData(<<"Input1", "Input2">>, <<PyInt(5), PyStr("x")>>, <<"Out1">>),
       SimulationData(<<>>, <<>>, <<"Out2">>) >>

\* The lists given as simulation_params.
Batches == {SubSeq(AllRecords, 1, n) : n \in 1..Len(AllRecords)}

\* The futures of the batch, by the position of their record.
Records == DOMAIN pool_params

\* A tuple built with the license type of the constructor's default.
PoolParamDefaultLicense(params) ==
    [trust_models |-> trust_models, dispatch_string |-> dispatch_string, version |-> "",
     model_filepath |-> model, path_context |-> path_context,
     event_controller |-> event_controller, simulation_data |-> params,
     license_type |-> "Professional"]

\* The tuple built per record at submission.
PoolParam(params) ==
    [trust_models |-> trust_models, dispatch_string |-> dispatch_string, version |-> "",
     model_filepath |-> model, path_context |-> path_context,
     event_controller |-> event_controller, simulation_data |-> params,
     license_type |-> license_type]

\* No batch was started.
BatchIdle ==
    /\ batch = "idle"
    /\ pool_params = <<>>
    /\ results = <<>>
    /\ order = <<>>
    /\ reported = {}
    /\ collected = {}
    /\ wpc = <<>>
    /\ wcalls = <<>>
    /\ wdata = <<>>
    /\ wresults = <<>>
    /\ wraised = <<>>
    /\ wreturn = <<>>

\* The session that calls run_simulations_in_parallel: model, path context and
\* event controller set, never initialized itself.
BatchSessionInit ==
    /\ license_type = "Student"
    /\ visible = FALSE
    /\ trust_models \in BOOLEAN
    /\ path_context = ".Models.Model"
    /\ event_controller = ".Models.Model.EventController"
    /\ model = "model.spp"
    /\ plantsim = None
    /\ calls = <<>>
    /\ outcome = Outcome("set_event_controller", <<"EventController">>, NoExc)

\* What stands for the result of a worker that has not returned.
NotReturned == SimulationResult(<<>>, <<>>)

\* run_simulations_in_parallel up to the submission of every tuple to the pool.
Submit(simulation_params) ==
    /\ batch = "idle"
    /\ pool_params' = [i \in DOMAIN simulation_params |-> PoolParam(simulation_params[i])]
    /\ wpc' = [i \in DOMAIN simulation_params |-> "pending"]
    /\ wcalls' = [i \in DOMAIN simulation_params |-> <<>>]
    /\ wdata' = [i \in DOMAIN simulation_params |-> simulation_params[i]]
    /\ wresults' = [i \in DOMAIN simulation_params |-> <<>>]
    /\ wraised' = [i \in DOMAIN simulation_params |-> NoExc]
    /\ wreturn' = [i \in DOMAIN simulation_params |-> NotReturned]
    /\ batch' = "collecting"
    /\ UNCHANGED <<results, order, reported, collected>>
    /\ UNCHANGED notBatch

\* Every future counted as holding a process, the pending ones too.
RunningCountsPending == Records

\* The workers that hold a process of the pool.
Running == {i \in Records : wpc[i] \notin {"pending", "done", "failed"}}

\* An exception leaves the worker with no finally clause run.
WorkerRaiseNoFinally(i, c, e) ==
    /\ wcalls' = [wcalls EXCEPT ![i] = c]
    /\ wpc' = [wpc EXCEPT ![i] = "failed"]
    /\ wraised' = [wraised EXCEPT ![i] = e]

\* An exception leaves the try block: finally runs CoUninitialize.
WorkerRaise(i, c, e) ==
    /\ wcalls' = [wcalls EXCEPT ![i] = Append(c, Call("CoUninitialize", <<>>, Returned(None)))]
    /\ wpc' = [wpc EXCEPT ![i] = "failed"]
    /\ wraised' = [wraised EXCEPT ![i] = e]

\* The worker goes on to its next call.
WorkerGoes(i, c, next) ==
    /\ wcalls' = [wcalls EXCEPT ![i] = c]
    /\ wpc' = [wpc EXCEPT ![i] = next]
    /\ UNCHANGED wraised

\* One call on com_object that the worker does not guard: it returns and the
\* worker goes on to `next`, or it raises and the exception leaves the worker.
WorkerCall(i, at, verb, args, next) ==
    /\ wpc[i] = at
    /\ \E e \in EndpointOutcomes :
          LET c == Append(wcalls[i], Call(verb, args, Result(e)))
          IN  IF e = NoExc THEN WorkerGoes(i, c, next) ELSE WorkerRaise(i, c, e)

\* A process of the pool takes the tuple: CoInitialize, then EnsureDispatch.
WorkerDispatch(i) ==
    /\ UNCHANGED <<batch, pool_params, results, order, reported, collected>>
    /\ UNCHANGED notBatch
    /\ wpc[i] = "pending"
    /\ Cardinality(Running) < MaxWorkers
    /\ \E dispatched \in BOOLEAN :
          LET c0 == Append(wcalls[i], Call("CoInitialize", <<>>, Returned(None)))
              c1 == Append(c0, Call("EnsureDispatch", <<pool_params[i].dispatch_string>>,
                                    IF dispatched THEN Returned(Handle)
                                    ELSE Raised(Exc("Exception", <<"dispatch">>))))
          IN  IF dispatched
              THEN WorkerGoes(i, c1, IF pool_params[i].trust_models
                                     THEN "SetTrustModels" ELSE "SetLicenseType")
              ELSE WorkerRaise(i, c1, Exc("RuntimeError", <<"dispatch">>))
    /\ UNCHANGED <<wdata, wresults, wreturn>>

WorkerSetTrustModels(i) ==
    /\ UNCHANGED <<batch, pool_params, results, order, reported, collected>>
    /\ UNCHANGED notBatch
    /\ WorkerCall(i, "SetTrustModels", "SetTrustModels", <<TRUE>>, "SetLicenseType")
    /\ UNCHANGED <<wdata, wresults, wreturn>>

\* The except block around SetLicenseType in the worker.
WorkerLicenseExcept(e, lt) ==
    IF Len(e.payload[3]) = 0 THEN Exc("TypeError", <<"NoneType">>)
    ELSE IF PyEq(Extract(e.payload), INVALID_LICENSE) THEN InvalidLicenseError(lt)
    ELSE NoExc

\* The try statement around SetLicenseType.  The trace keeps what the
\* statement did: a fault its except block swallows leaves nothing behind.
WorkerSetLicenseType(i) ==
    /\ UNCHANGED <<batch, pool_params, results, order, reported, collected>>
    /\ UNCHANGED notBatch
    /\ wpc[i] = "SetLicenseType"
    /\ \E lic \in LicenseOutcomes :
          LET lt == pool_params[i].license_type
              e == IF lic = NoExc THEN NoExc ELSE WorkerLicenseExcept(lic, lt)
              c == Append(wcalls[i], Call("SetLicenseType", <<lt>>, Result(e)))
          IN  IF e = NoExc THEN WorkerGoes(i, c, "LoadModel") ELSE WorkerRaise(i, c, e)
    /\ UNCHANGED <<wdata, wresults, wreturn>>

WorkerLoadModel(i) ==
    /\ UNCHANGED <<batch, pool_params, results, order, reported, collected>>
    /\ UNCHANGED notBatch
    /\ WorkerCall(i, "LoadModel", "LoadModel", <<pool_params[i].model_filepath>>,
                  "SetPathContext")
    /\ UNCHANGED <<wdata, wresults, wreturn>>

\* SetPathContext, and on its return the for loop calls iter(simulation_data).
WorkerSetPathContext(i) ==
    /\ UNCHANGED <<batch, pool_params, results, order, reported, collected>>
    /\ UNCHANGED notBatch
    /\ WorkerCall(i, "SetPathContext", "SetPathContext", <<pool_params[i].path_context>>,
                  IF DataHasNext(DataIter(wdata[i])) THEN "SetValue" ELSE "StartSimulation")
    /\ wdata' = [wdata EXCEPT ![i] = IF wpc'[i] = "failed" THEN @ ELSE DataIter(@)]
    /\ UNCHANGED <<wresults, wreturn>>

\* One turn of `for input_variable, value in simulation_data`.
WorkerSetValue(i) ==
    /\ UNCHANGED <<batch, pool_params, results, order, reported, collected>>
    /\ UNCHANGED notBatch
    /\ wpc[i] = "SetValue"
    /\ WorkerCall(i, "SetValue", "SetValue", DataItem(wdata[i]),
                  IF DataHasNext(DataAdvance(wdata[i])) THEN "SetValue" ELSE "StartSimulation")
    /\ wdata' = [wdata EXCEPT ![i] = DataAdvance(@)]
    /\ UNCHANGED <<wresults, wreturn>>

WorkerStartSimulation(i) ==
    /\ UNCHANGED <<batch, pool_params, results, order, reported, collected>>
    /\ UNCHANGED notBatch
    /\ WorkerCall(i, "StartSimulation", "StartSimulation",
                  <<pool_params[i].event_controller>>, "IsSimulationRunning")
    /\ UNCHANGED <<wdata, wresults, wreturn>>

\* The call the worker makes once the simulation is over.
AfterPolling(d) == IF Len(get_output_variables(d)) > 0 THEN "GetValue" ELSE "ResetSimulation"

\* How many times the worker was told the simulation is running.
Polls(i) == Cardinality({k \in DOMAIN wcalls[i] : /\ wcalls[i][k].verb = "IsSimulationRunning"
                                                   /\ wcalls[i][k].ret = Returned(TRUE)})

\* One turn of `while com_object.IsSimulationRunning(): pass`.
WorkerIsSimulationRunning(i) ==
    /\ UNCHANGED <<batch, pool_params, results, order, reported, collected>>
    /\ UNCHANGED notBatch
    /\ wpc[i] = "IsSimulationRunning"
    /\ \/ \E running \in BOOLEAN :
             /\ running => Polls(i) < MaxPolls
             /\ WorkerGoes(i, Append(wcalls[i], Call("IsSimulationRunning", <<>>, Returned(running))),
                           IF running THEN "IsSimulationRunning" ELSE AfterPolling(wdata[i]))
       \/ WorkerRaise(i, Append(wcalls[i], Call("IsSimulationRunning", <<>>, Raised(OtherFault))),
                      OtherFault)
    /\ UNCHANGED <<wdata, wresults, wreturn>>

\* results.insert(0, value)
WorkerInsertFirst(rs, value) == <<value>> \o rs

\* results.append(value)
WorkerAppend(rs, value) == Append(rs, value)

\* One turn of `for output_variable in simulation_data.get_output_variables()`.
WorkerGetValue(i) ==
    /\ UNCHANGED <<batch, pool_params, results, order, reported, collected>>
    /\ UNCHANGED notBatch
    /\ wpc[i] = "GetValue"
    /\ LET outs == get_output_variables(wdata[i])
           name == outs[Len(wresults[i]) + 1]
       IN  \/ \E value \in ReturnValues :
                 /\ WorkerGoes(i, Append(wcalls[i], Call("GetValue", <<name>>, Returned(value))),
                               IF Len(wresults[i]) + 1 < Len(outs)
                               THEN "GetValue" ELSE "ResetSimulation")
                 /\ wresults' = [wresults EXCEPT ![i] = WorkerAppend(@, value)]
           \/ /\ WorkerRaise(i, Append(wcalls[i], Call("GetValue", <<name>>, Raised(OtherFault))),
                             OtherFault)
              /\ UNCHANGED wresults
    /\ UNCHANGED <<wdata, wreturn>>

\* ResetSimulation, then finally CoUninitialize and the return of the result.
WorkerResetSimulation(i) ==
    /\ UNCHANGED <<batch, pool_params, results, order, reported, collected>>
    /\ UNCHANGED notBatch
    /\ wpc[i] = "ResetSimulation"
    /\ \E e \in EndpointOutcomes :
          LET c == Append(wcalls[i], Call("ResetSimulation",
                                          <<pool_params[i].event_controller>>, Result(e)))
          IN  IF e = NoExc
              THEN /\ wcalls' = [wcalls EXCEPT ![i] =
                                    Append(c, Call("CoUninitialize", <<>>, Returned(None)))]
                   /\ wpc' = [wpc EXCEPT ![i] = "done"]
                   /\ wreturn' = [wreturn EXCEPT ![i] =
                                     SimulationResult(get_output_variables(wdata[i]), wresults[i])]
                   /\ UNCHANGED wraised
              ELSE WorkerRaise(i, c, e) /\ UNCHANGED wreturn
    /\ UNCHANGED <<wdata, wresults>>

(***************************************************************************)
(* plantsim.py: the collection loop of run_simulations_in_parallel.        *)
(***************************************************************************)
\* The classes `except Exception` catches.
ExceptionTypes == {"Exception", "RuntimeError", "TypeError", "com_error",
                   "InvalidLicenseError", "CommandOrderError", "AttributeError",
                   "FileNotFoundError"}

\* A handler that catches RuntimeError only.
CaughtRuntimeErrorOnly(e) == e.type = "RuntimeError"

\* `except Exception as exc`
Caught(e) == e.type \in ExceptionTypes

\* One turn of `for future in as_completed(...)`: future.result() returns the
\* worker's result, which is appended, or raises the worker's exception, which
\* is printed when caught and leaves run_simulations_in_parallel otherwise.
Collect(i) ==
    /\ UNCHANGED notBatch
    /\ batch = "collecting"
    /\ i \notin collected
    /\ wpc[i] \in {"done", "failed"}
    /\ collected' = collected \cup {i}
    /\ IF wpc[i] = "done"
       THEN /\ results' = Append(results, wreturn[i])
            /\ order' = Append(order, i)
            /\ UNCHANGED <<reported, batch>>
       ELSE IF Caught(wraised[i])
       THEN /\ reported' = reported \cup {<<i, wraised[i]>>}
            /\ UNCHANGED <<results, order, batch>>
       ELSE /\ batch' = "raised"
            /\ UNCHANGED <<results, order, reported>>
    /\ UNCHANGED <<pool_params, wpc, wcalls, wdata, wresults, wraised, wreturn>>

\* as_completed is exhausted: the executor shuts down and the list is returned.
Return ==
    /\ UNCHANGED notBatch
    /\ batch = "collecting"
    /\ collected = Records
    /\ batch' = "returned"
    /\ UNCHANGED <<pool_params, results, order, reported, collected,
                   wpc, wcalls, wdata, wresults, wraised, wreturn>>

(***************************************************************************)
(* _dataframe.py and PlantSim.get_table / set_table.                       *)
(***************************************************************************)
table_name == "Table"

\* The extents a table or a DataFrame has.
TableDims == {0, 1, 5}
MaxDim == CHOOSE d \in TableDims : \A e \in TableDims : e <= d

\* f"{table_name}.XDim", f"{table_name}.YDim"
XDimName(t) == t \o ".XDim"
YDimName(t) == t \o ".YDim"

\* f"{table_name}[{col}, {row}]"
CellName(t, col, row) == t \o "[" \o ToString(col) \o ", " \o ToString(row) \o "]"

\* The names the COM server answers for: the extents, and every cell up to one
\* past the largest extent.
CellNames == {CellName(table_name, c, r) : c \in 1..(MaxDim + 1), r \in 1..(MaxDim + 1)}

\* The cells within the extents of the table, as the COM server has them.
WithinExtents(st) ==
    {CellName(table_name, c, r) : c \in 1..st[XDimName(table_name)],
                                  r \in 1..st[YDimName(table_name)]}

\* An empty cell, and what a cell held before the caller wrote.
Void == PyNone
OldValue == PyStr("old")

\* pd.DataFrame(rows, columns=columns), and pd.DataFrame().
PandasDataFrame(rows, columns) == [columns |-> columns, rows |-> rows]
EmptyDataFrame == PandasDataFrame(<<>>, <<>>)

\* data_frame.shape
RowCount(df) == Len(df.rows)
ColCount(df) == Len(df.columns)

\* data_frame.iloc[row_idx, col_idx], 0-based.
Iloc(df, row_idx, col_idx) == df.rows[row_idx + 1][col_idx + 1]

ColumnNames == <<PyStr("A"), PyStr("B"), PyStr("C"), PyStr("D"), PyStr("E")>>

\* The DataFrame of R rows and C columns a caller holds.
CallerDataFrame(R, C) ==
    PandasDataFrame([r \in 1..R |-> [c \in 1..C |-> PyInt(10 * r + c)]],
                    SubSeq(ColumnNames, 1, C))

TableIdle ==
    /\ store = <<>>
    /\ data_frame = None
    /\ table = None
    /\ tcalls = <<>>
    /\ tlast = <<>>

\* A table of the COM server with some extents and cells, and the DataFrame
\* the caller is about to write.
TableInit ==
    /\ \E x, y \in TableDims, content \in {Void, OldValue} :
          store = [n \in CellNames \cup {XDimName(table_name), YDimName(table_name)} |->
                      IF n = XDimName(table_name) THEN x
                      ELSE IF n = YDimName(table_name) THEN y
                      ELSE content]
    /\ \E R, C \in TableDims : data_frame = CallerDataFrame(R, C)
    /\ table = None
    /\ tcalls = <<>>
    /\ tlast = <<>>

\* The operation just made, with the one before it.
Then(op, exc) == <<IF tlast = <<>> THEN "none" ELSE tlast[2], op, exc>>

\* The guard of DataFrame.__init__ with `or` for `and`.
HasDataEither(row_count, col_count) == row_count > 0 \/ col_count > 0

\* The guard of DataFrame.__init__.
HasData(row_count, col_count) == row_count > 0 /\ col_count > 0

\* The name of the k-th cell DataFrame.__init__ reads, k from 0: the loops run
\* row_idx over range(row_count + 1) and, inside, col_idx over
\* range(col_count + 1), and read [col_idx + 1, row_idx + 1].
ReadName(k, col_count) ==
    LET row_idx == k \div (col_count + 1)
        col_idx == k % (col_count + 1)
    IN  CellName(table_name, col_idx + 1, row_idx + 1)

\* The list `data`: one list per row_idx, one value per col_idx.
ReadData(st, row_count, col_count) ==
    [r \in 1..(row_count + 1) |->
        [c \in 1..(col_count + 1) |-> st[ReadName((r - 1) * (col_count + 1) + (c - 1), col_count)]]]

\* The GetValue calls for the first n cells, in order.
CellReads(st, n, col_count) ==
    [k \in 1..n |-> Call("GetValue", <<ReadName(k - 1, col_count)>>,
                         Returned(st[ReadName(k - 1, col_count)]))]

\* The two queries of the extents.
ExtentReads(st) ==
    << Call("GetValue", <<XDimName(table_name)>>, Returned(st[XDimName(table_name)])),
       Call("GetValue", <<YDimName(table_name)>>, Returned(st[YDimName(table_name)])) >>

\* get_table: DataFrame(self, table_name).  Reading a cell beyond the extents is
\* up to the COM server: it answers with what it holds there, or (strict) raises.
get_table ==
    /\ UNCHANGED notTable
    /\ \E strict \in BOOLEAN :
          LET col_count == store[XDimName(table_name)]
              row_count == store[YDimName(table_name)]
              data == ReadData(store, row_count, col_count)
              all == (row_count + 1) * (col_count + 1)
          IN  IF plantsim = None
              THEN /\ UNCHANGED table
                   /\ tcalls' = <<>>
                   /\ tlast' = Then("get_table", AttributeError)
              ELSE IF ~HasData(row_count, col_count)
              THEN /\ table' = EmptyDataFrame
                   /\ tcalls' = ExtentReads(store)
                   /\ tlast' = Then("get_table", NoExc)
              ELSE IF strict
              THEN /\ UNCHANGED table
                   /\ tcalls' = ExtentReads(store) \o CellReads(store, col_count, col_count)
                                   \o << Call("GetValue", <<ReadName(col_count, col_count)>>,
                                              Raised(OtherFault)) >>
                   /\ tlast' = Then("get_table", OtherFault)
              ELSE /\ table' = PandasDataFrame(Tail(data), data[1])
                   /\ tcalls' = ExtentReads(store) \o CellReads(store, all, col_count)
                   /\ tlast' = Then("get_table", NoExc)
    /\ UNCHANGED <<store, data_frame>>

\* The name and the value of the k-th write of set_table, k from 0: the loops
\* run row_idx over range(row_count) and, inside, col_idx over range(col_count).
WriteName(df, k) ==
    CellName(table_name, (k % ColCount(df)) + 1, (k \div ColCount(df)) + 1)
WriteValue(df, k) == Iloc(df, k \div ColCount(df), k % ColCount(df))

\* The COM server after the first n writes of set_table.
Written(st, df, n) ==
    [name \in DOMAIN st |->
        IF \E k \in 0..(n - 1) : WriteName(df, k) = name
        THEN WriteValue(df, CHOOSE k \in 0..(n - 1) : WriteName(df, k) = name)
        ELSE st[name]]

\* The SetValue calls of the first n writes.
CellWrites(df, n) ==
    [k \in 1..n |-> Call("SetValue", <<WriteName(df, k - 1), WriteValue(df, k - 1)>>,
                         Returned(None))]

\* set_table: writes every cell of the DataFrame, the extents of the table
\* taken as they are.  A SetValue may raise, which ends the loops; with no
\* handle the first set_value raises, if there is a cell to write.
set_table ==
    /\ UNCHANGED notTable
    /\ LET all == RowCount(data_frame) * ColCount(data_frame)
       IN  \/ /\ plantsim = None /\ all > 0
              /\ tcalls' = <<>>
              /\ tlast' = Then("set_table", AttributeError)
              /\ UNCHANGED store
           \/ /\ plantsim # None \/ all = 0
              /\ store' = Written(store, data_frame, all)
              /\ tcalls' = CellWrites(data_frame, all)
              /\ tlast' = Then("set_table", NoExc)
           \/ \E n \in {0, all - 1} :
                 /\ plantsim # None
                 /\ all > 0
                 /\ store' = Written(store, data_frame, n)
                 /\ tcalls' = CellWrites(data_frame, n)
                                 \o << Call("SetValue", <<WriteName(data_frame, n),
                                                          WriteValue(data_frame, n)>>,
                                            Raised(OtherFault)) >>
                 /\ tlast' = Then("set_table", OtherFault)
    /\ UNCHANGED <<data_frame, table>>

\* The COM server after the extents of the table are set to the shape of df.
Resized(st, df) ==
    [st EXCEPT ![XDimName(table_name)] = ColCount(df), ![YDimName(table_name)] = RowCount(df)]

\* Resize-and-write: sets XDim and YDim to the shape of the DataFrame, then
\* writes the cells as set_table does.
resize_and_write ==
    /\ UNCHANGED notTable
    /\ LET all == RowCount(data_frame) * ColCount(data_frame)
       IN  IF plantsim = None
           THEN /\ tcalls' = <<>>
                /\ tlast' = Then("resize_and_write", AttributeError)
                /\ UNCHANGED store
           ELSE /\ store' = Written(Resized(store, data_frame), data_frame, all)
                /\ tcalls' = << Call("SetValue", <<XDimName(table_name), ColCount(data_frame)>>,
                                     Returned(None)),
                                Call("SetValue", <<YDimName(table_name), RowCount(data_frame)>>,
                                     Returned(None)) >>
                                \o CellWrites(data_frame, all)
                /\ tlast' = Then("resize_and_write", NoExc)
    /\ UNCHANGED <<data_frame, table>>

(***************************************************************************)
(* simulation_data.py: iter() and next() on a SimulationData.              *)
(***************************************************************************)
InputNames == <<"Input1", "Input2", "Input3">>

\* A value of each kind.
ValueOf(kind) == IF kind = "int" THEN PyInt(3) ELSE PyStr("x")

\* The objects a caller builds: n input names, n values, some outputs.
IterableData ==
    {SimulationData(SubSeq(InputNames, 1, n), [k \in 1..n |-> ValueOf(kinds[k])], <<"Out1">>) :
        n \in 0..Len(InputNames), kinds \in [1..Len(InputNames) -> {"int", "str"}]}

IterIdle ==
    /\ sd = None
    /\ yielded = <<>>
    /\ passes = 0
    /\ ilast = "none"

\* SimulationData.__init__ with as many values as input names.
IterInit ==
    /\ sd \in IterableData
    /\ yielded = <<>>
    /\ passes = 0
    /\ ilast = "init"

\* iter(sd)
Iter ==
    /\ UNCHANGED notIter
    /\ passes < MaxPasses
    /\ sd' = DataIter(sd)
    /\ yielded' = <<>>
    /\ passes' = passes + 1
    /\ ilast' = "iter"

\* next(sd)
NextItem ==
    /\ UNCHANGED notIter
    /\ IF DataHasNext(sd)
       THEN /\ yielded' = Append(yielded, DataItem(sd))
            /\ sd' = DataAdvance(sd)
            /\ ilast' = "item"
       ELSE /\ ilast' = "StopIteration"
            /\ UNCHANGED <<sd, yielded>>
    /\ UNCHANGED passes

(***************************************************************************)
(* The specifications.                                                     *)
(***************************************************************************)
\* A session and the calls of its methods, in any order.
Init == SessionInit /\ BatchIdle /\ TableIdle /\ IterIdle

Next ==
    \/ initialize
    \/ \E path \in Paths : set_model(path)
    \/ \E value \in PathContexts : set_path_context(value)
    \/ \E value \in ControllerNames : set_event_controller(value)
    \/ start_simulation
    \/ reset_simulation

Spec == Init /\ [][Next]_vars

\* A configured session that runs one batch in parallel.
BatchInit == BatchSessionInit /\ BatchIdle /\ TableIdle /\ IterIdle

BatchNext ==
    \/ \E b \in Batches : Submit(b)
    \/ \E i \in Records : WorkerDispatch(i)
    \/ \E i \in Records : WorkerSetTrustModels(i)
    \/ \E i \in Records : WorkerSetLicenseType(i)
    \/ \E i \in Records : WorkerLoadModel(i)
    \/ \E i \in Records : WorkerSetPathContext(i)
    \/ \E i \in Records : WorkerSetValue(i)
    \/ \E i \in Records : WorkerStartSimulation(i)
    \/ \E i \in Records : WorkerIsSimulationRunning(i)
    \/ \E i \in Records : WorkerGetValue(i)
    \/ \E i \in Records : WorkerResetSimulation(i)
    \/ \E i \in Records : Collect(i)
    \/ Return

SpecBatch == BatchInit /\ [][BatchNext]_vars

\* PlantSim(), with the defaults of the constructor.
SessionDefault == SessionInit /\ license_type = "Professional" /\ trust_models = FALSE

\* A session after an initialize() that returned.
SessionInitialized ==
    /\ license_type = "Professional"
    /\ visible = FALSE
    /\ trust_models = FALSE
    /\ path_context = ".Models.Model"
    /\ event_controller = None
    /\ model = "model.spp"
    /\ plantsim = Handle
    /\ calls = << Call("EnsureDispatch", <<dispatch_string>>, Returned(Handle)),
                  Call("SetLicenseType", <<"Professional">>, Returned(None)),
                  Call("LoadModel", <<"model.spp">>, Returned(None)),
                  Call("SetPathContext", <<".Models.Model">>, Returned(None)) >>
    /\ outcome = Outcome("initialize", <<>>, NoExc)

\* A table of the COM server, written and read through a session, initialized
\* or not.
TableSpecInit == (SessionDefault \/ SessionInitialized) /\ BatchIdle /\ TableInit /\ IterIdle

TableNext ==
    \/ get_table
    \/ set_table
    \/ resize_and_write

SpecTable == TableSpecInit /\ [][TableNext]_vars

\* One SimulationData, iterated.
IterSpecInit == SessionDefault /\ BatchIdle /\ TableIdle /\ IterInit

IterNext ==
    \/ Iter
    \/ NextItem

SpecIter == IterSpecInit /\ [][IterNext]_vars

\* A session in use, initialized or not: values, commands and quit.
UseInit == (SessionDefault \/ SessionInitialized) /\ BatchIdle /\ TableIdle /\ IterIdle

UseNext ==
    \/ \E value \in PathContexts : set_path_context(value)
    \/ \E object_name \in ObjectNames : get_value(object_name)
    \/ \E object_name \in ObjectNames, value \in Values : set_value(object_name, value)
    \/ \E command_string \in Commands, parameter \in Parameters, from_path_context \in BOOLEAN :
          execute_simtalk(command_string, parameter, from_path_context)
    \/ quit

SpecUse == UseInit /\ [][UseNext]_vars

\* A session after initialize() returned, with its event controller set.
SessionReady ==
    /\ license_type = "Professional"
    /\ visible = FALSE
    /\ trust_models \in BOOLEAN
    /\ path_context = ".Models.Model"
    /\ event_controller = ".Models.Model.EventController"
    /\ model = "model.spp"
    /\ plantsim = Handle
    /\ calls = << Call("EnsureDispatch", <<dispatch_string>>, Returned(Handle)),
                  Call("SetLicenseType", <<"Professional">>, Returned(None)),
                  Call("LoadModel", <<"model.spp">>, Returned(None)),
                  Call("SetPathContext", <<".Models.Model">>, Returned(None)) >>
               \o (IF trust_models
                   THEN <<Call("SetTrustModels", <<TRUE>>, Returned(None))>>
                   ELSE <<>>)
    /\ outcome = Outcome("initialize", <<>>, NoExc)

\* The lists of one record given as simulation_params.
SingleBatches == {<<AllRecords[k]>> : k \in DOMAIN AllRecords}

\* Runs of a simulation: run_simulation on the session, and one record at a
\* time run in parallel.
RunsInit == (SessionDefault \/ SessionReady) /\ BatchIdle /\ TableIdle /\ IterIdle

RunsNext ==
    \/ \E data \in SerialData : run_simulation(data)
    \/ \E b \in SingleBatches : Submit(b)
    \/ \E i \in Records : WorkerDispatch(i)
    \/ \E i \in Records : WorkerSetTrustModels(i)
    \/ \E i \in Records : WorkerSetLicenseType(i)
    \/ \E i \in Records : WorkerLoadModel(i)
    \/ \E i \in Records : WorkerSetPathContext(i)
    \/ \E i \in Records : WorkerSetValue(i)
    \/ \E i \in Records : WorkerStartSimulation(i)
    \/ \E i \in Records : WorkerIsSimulationRunning(i)
    \/ \E i \in Records : WorkerGetValue(i)
    \/ \E i \in Records : WorkerResetSimulation(i)
    \/ \E i \in Records : Collect(i)
    \/ Return

SpecRuns == RunsInit /\ [][RunsNext]_vars

\* The lists of one or two records given as simulation_params.
ShortBatches == {SubSeq(AllRecords, 1, n) : n \in 1..2}

\* A batch whose processes and whose coordinator are scheduled fairly: a step
\* that can be taken is taken in the end.
FairNext ==
    \/ \E b \in ShortBatches : Submit(b)
    \/ \E i \in Records : WorkerDispatch(i)
    \/ \E i \in Records : WorkerSetTrustModels(i)
    \/ \E i \in Records : WorkerSetLicenseType(i)
    \/ \E i \in Records : WorkerLoadModel(i)
    \/ \E i \in Records : WorkerSetPathContext(i)
    \/ \E i \in Records : WorkerSetValue(i)
    \/ \E i \in Records : WorkerStartSimulation(i)
    \/ \E i \in Records : WorkerIsSimulationRunning(i)
    \/ \E i \in Records : WorkerGetValue(i)
    \/ \E i \in Records : WorkerResetSimulation(i)
    \/ \E i \in Records : Collect(i)
    \/ Return

SpecFair == BatchInit /\ [][FairNext]_vars /\ WF_vars(FairNext)

(***************************************************************************)
(* Properties of the session.                                              *)
(***************************************************************************)
\* The SetLicenseType call of the trace raised the fault f.
LicenseRaised(f) ==
    \E i \in DOMAIN calls : /\ calls[i].verb = "SetLicenseType"
                             /\ calls[i].ret.t = "raise"
                             /\ calls[i].ret.e = f

\* The trace holds a call of one of the verbs.
Issued(verbs) == \E i \in DOMAIN calls : calls[i].verb \in verbs

\* C1: setting the event controller while the path context is None or empty
\* raises CommandOrderError and leaves the stored controller as it was; with a
\* non-empty path context ctx it succeeds and stores "ctx.name".
C1_EventControllerOrder ==
    [][outcome'.op = "set_event_controller" =>
          IF path_context = None \/ path_context = ""
          THEN /\ outcome'.exc.type = "CommandOrderError"
               /\ event_controller' = event_controller
          ELSE /\ outcome'.exc = NoExc
               /\ event_controller' = path_context \o "." \o outcome'.arg[1]]_vars

C1_Witness ==
    /\ outcome = Outcome("set_event_controller", <<"Ctl">>, NoExc)
    /\ path_context = ".Models.Model"
    /\ event_controller = ".Models.Model.Ctl"

\* C2: start_simulation and reset_simulation with the event controller unset
\* issue no StartSimulation/ResetSimulation call: every such call of the trace
\* carries a controller that is not None, and a start or reset made while the
\* controller is unset on an initialized session raises CommandOrderError.
C2_SimulationControlGuarded ==
    /\ \A i \in DOMAIN calls :
          calls[i].verb \in {"StartSimulation", "ResetSimulation"} => calls[i].args[1] # None
    /\ (/\ outcome.op \in {"start_simulation", "reset_simulation"}
        /\ plantsim # None
        /\ event_controller = None) => outcome.exc.type = "CommandOrderError"

\* C4: initialize() of a session whose model path is not a file on disk raises
\* the model-not-found error and the trace of calls stays empty.
C4_InitializeChecksModel ==
    (outcome.op = "initialize" /\ model \notin ExistingPaths)
        => (outcome.exc.type = "FileNotFoundError" /\ calls = <<>>)

\* C5: when SetLicenseType raises the fault whose args[2][5] is the
\* invalid-license code, initialize() raises InvalidLicenseError carrying the
\* requested license type and does not go on to LoadModel.
C5_InvalidLicenseTranslated ==
    (outcome.op = "initialize" /\ LicenseRaised(InvalidLicenseFault))
        => (outcome.exc = InvalidLicenseError(license_type) /\ ~Issued({"LoadModel"}))

\* C6: when SetLicenseType raises a fault with another error code, initialize()
\* raises that same fault and goes on to neither LoadModel nor SetPathContext.
C6_OtherLicenseFaultPropagates ==
    (outcome.op = "initialize" /\ LicenseRaised(OtherFault))
        => (outcome.exc = OtherFault /\ ~Issued({"LoadModel", "SetPathContext"}))

(***************************************************************************)
(* Properties of the batch.                                                *)
(***************************************************************************)
\* The workers that returned a result.
Succeeded == {i \in Records : wpc[i] = "done"}

\* The GetValue calls of worker i, in order.
IsGetValue(c) == c.verb = "GetValue"
GetValues(i) == SelectSeq(wcalls[i], IsGetValue)

\* C3: whatever subset of the workers raises, run_simulations_in_parallel does
\* not raise; a worker fails only through a call of its own that raised; and
\* when the call returns every worker has ended and the list holds exactly one
\* result per worker that succeeded, the one that worker returned, and none
\* for a worker that failed, in the order of collection.
C3_BatchToleratesFailures ==
    /\ batch # "raised"
    /\ \A i \in Records :
          wpc[i] = "failed" =>
             /\ Len(wcalls[i]) >= 2
             /\ wcalls[i][Len(wcalls[i]) - 1].ret.t = "raise"
             /\ wraised[i] # NoExc
    /\ batch = "returned" =>
          /\ \A i \in Records : wpc[i] \in {"done", "failed"}
          /\ Len(results) = Cardinality(Succeeded)
          /\ Len(order) = Len(results)
          /\ \A k \in DOMAIN order : order[k] \in Succeeded /\ results[k] = wreturn[order[k]]
          /\ \A j, k \in DOMAIN order : j # k => order[j] # order[k]
          /\ {r[1] : r \in reported} = Records \ Succeeded

C3_Witness ==
    /\ batch = "returned"
    /\ wpc = <<"done", "failed", "done">>
    /\ wraised[2] = OtherFault
    /\ order = <<3, 1>>
    /\ Len(results) = 2
    /\ reported = {<<2, OtherFault>>}

\* C9: the SimulationResult of a worker that succeeded lists the output
\* variables of its record in the order requested, holds as many values as
\* names, and its i-th value is what GetValue returned for the i-th name.
C9_ResultPairsOutputs ==
    \A i \in Succeeded :
        LET outs == pool_params[i].simulation_data.output_variables
            gets == GetValues(i)
        IN  /\ wreturn[i].output_variables = outs
            /\ Len(wreturn[i].values) = Len(outs)
            /\ Len(gets) = Len(outs)
            /\ \A k \in DOMAIN outs :
                  /\ gets[k].args = <<outs[k]>>
                  /\ gets[k].ret.t = "return"
                  /\ wreturn[i].values[k] = gets[k].ret.v

C9_Witness ==
    \E i \in Succeeded :
        wreturn[i] = SimulationResult(<<"Out1", "Out2">>, <<PyInt(2), PyInt(1)>>)

(***************************************************************************)
(* Properties of the table mapping.                                        *)
(***************************************************************************)
\* C7: a DataFrame of R rows and C columns written by resize-and-write and
\* then read back by get_table comes back with its column names as the header
\* and its rows as the data rows; stated here for the frames that have at
\* least one row and one column (R and C in {1, 5}), where nothing depends on
\* how an empty frame compares.
C7_TableRoundTrip ==
    (/\ tlast = <<"resize_and_write", "get_table", NoExc>>
     /\ Len(data_frame.rows) >= 1
     /\ Len(data_frame.columns) >= 1)
        => (table.columns = data_frame.columns /\ table.rows = data_frame.rows)

\* C8: get_table of an initialized session on a table whose XDim or YDim is 0
\* returns the empty DataFrame whatever the cells hold, and its only calls are
\* the two queries of the extents.
C8_ZeroExtentReadsEmpty ==
    (/\ plantsim # None
     /\ Len(tlast) = 3
     /\ tlast[2] = "get_table"
     /\ (store[XDimName(table_name)] = 0 \/ store[YDimName(table_name)] = 0))
        => /\ tlast[3] = NoExc
           /\ table = [columns |-> <<>>, rows |-> <<>>]
           /\ Len(tcalls) = 2
           /\ tcalls[1].verb = "GetValue" /\ tcalls[1].args = <<"Table.XDim">>
           /\ tcalls[2].verb = "GetValue" /\ tcalls[2].args = <<"Table.YDim">>

C8_Witness ==
    /\ plantsim = Handle
    /\ Len(tlast) = 3
    /\ tlast[2] = "get_table"
    /\ store["Table.XDim"] = 0
    /\ store["Table.YDim"] = 5
    /\ store["Table[1, 1]"] = OldValue
    /\ table = EmptyDataFrame

(***************************************************************************)
(* Properties of the iteration.                                            *)
(***************************************************************************)
\* The (name, value) pairs of a SimulationData, in order.
AllPairs(d) == [k \in 1..Len(d.input_variables) |-> <<d.input_variables[k], d.values[k]>>]

\* C10: in every pass the pairs returned so far are the first pairs of the
\* data, in order; StopIteration comes exactly when all n were returned; and
\* every iter() starts a pass afresh, from the first pair, whether the pass
\* before it was completed or not.
C10_IterationRestartable ==
    /\ sd.index <= Len(sd.input_variables)
    /\ yielded = SubSeq(AllPairs(sd), 1, sd.index)
    /\ ilast = "StopIteration" => yielded = AllPairs(sd)
    /\ ilast = "iter" => (yielded = <<>> /\ sd.index = 0)

C10_Witness ==
    /\ passes = 2
    /\ ilast = "StopIteration"
    /\ yielded = << <<"Input1", PyInt(3)>>, <<"Input2", PyStr("x")>> >>

(***************************************************************************)
(* Properties of a session in use.                                         *)
(***************************************************************************)
\* The call issued last.
LastCall == calls[Len(calls)]

\* execute_simtalk was the last operation and it issued its call.
Executed == outcome.op = "execute_simtalk" /\ plantsim # None

\* C11: execute_simtalk(c, from_path_context=True) on a session whose path
\* context is P issues the command string "P.c"; with from_path_context=False
\* it issues ".c" whatever the path context is.
C11_CommandPrefix ==
    Executed =>
        /\ LastCall.verb = "ExecuteSimTalk"
        /\ (outcome.arg[3] /\ path_context # None)
               => LastCall.args[1] = path_context \o "." \o outcome.arg[1]
        /\ ~outcome.arg[3] => LastCall.args[1] = "." \o outcome.arg[1]

C11_Witness ==
    /\ Executed
    /\ outcome.arg[3]
    /\ path_context = ".Models.Model"
    /\ LastCall.args[1] = ".Models.Model.foo"
    /\ \E i \in DOMAIN calls : calls[i].verb = "ExecuteSimTalk" /\ calls[i].args[1] = ".foo"

\* C12: once quit() has issued Quit, no later operation of the session issues
\* a call: Quit is the last call of the trace.
C12_QuitIsLast ==
    \A i \in DOMAIN calls :
        (calls[i].verb = "Quit" /\ calls[i].ret.t = "return") => i = Len(calls)

\* C18: execute_simtalk passes the parameter as the second argument whenever
\* one was supplied, the falsy ones (0, False, '') included, and passes the
\* command alone only when none was supplied.
C18_ParameterForwarded ==
    Executed =>
        IF outcome.arg[2] = PyNone
        THEN Len(LastCall.args) = 1
        ELSE Len(LastCall.args) = 2 /\ LastCall.args[2] = outcome.arg[2]

(***************************************************************************)
(* Properties of the path context and the event controller.                *)
(***************************************************************************)
\* The path context the COM server was given last.
EndpointPathContext ==
    LET set == {i \in DOMAIN calls : /\ calls[i].verb = "SetPathContext"
                                      /\ calls[i].ret.t = "return"}
    IN  calls[CHOOSE i \in set : \A j \in set : j <= i].args[1]

\* C13: on a session whose initialize() returned, after any calls of
\* set_path_context the path context of the COM server is the stored one.
C13_PathContextForwarded ==
    (plantsim # None /\ outcome.exc = NoExc
     /\ \E i \in DOMAIN calls : calls[i].verb = "SetPathContext" /\ calls[i].ret.t = "return")
        => EndpointPathContext = path_context

\* C20: the stored event controller is None or "<path context>.<name>" for
\* the path context the session holds now and a name that was given.
C20_ControllerScoped ==
    event_controller # None
        => \E name \in ControllerNames : event_controller = path_context \o "." \o name

(***************************************************************************)
(* Properties of the workers.                                              *)
(***************************************************************************)
\* The verbs and the arguments of a sequence of calls.
VerbsOf(cs) == [k \in DOMAIN cs |-> cs[k].verb]
ArgsOf(cs) == [k \in DOMAIN cs |-> cs[k].args]

\* The calls of worker i that initialize() also knows, in order.
IsInitializeCall(c) == c.verb \in InitializeVerbs
WorkerInitialization(i) == SelectSeq(wcalls[i], IsInitializeCall)

\* The calls an initialize() that returns issues on the session of the batch.
SessionInitialization == InitializeRun(TRUE, NoExc, "none", OtherFault).calls

\* Worker i went through its initialization.
WorkerInitialized(i) ==
    \E k \in DOMAIN wcalls[i] : /\ wcalls[i][k].verb = "SetPathContext"
                                  /\ wcalls[i][k].ret.t = "return"

\* C15: a worker that went through its initialization issued the calls that
\* initialize() issues for the same trust flag, license type, model and path
\* context, in the same order.
C15_WorkerInitializesAsSession ==
    \A i \in Records :
        WorkerInitialized(i)
            => /\ VerbsOf(WorkerInitialization(i)) = VerbsOf(SessionInitialization)
               /\ ArgsOf(WorkerInitialization(i)) = ArgsOf(SessionInitialization)

\* Worker i got a handle from EnsureDispatch.
WorkerDispatched(i) ==
    \E k \in DOMAIN wcalls[i] : /\ wcalls[i][k].verb = "EnsureDispatch"
                                  /\ wcalls[i][k].ret.t = "return"

\* C16: a worker that got a handle and has ended, by returning or by raising
\* from any of its calls, disconnected (CoUninitialize) exactly once, and that
\* is the last thing it did.
C16_WorkerDisconnects ==
    \A i \in Records :
        (WorkerDispatched(i) /\ wpc[i] \in {"done", "failed"})
            => /\ wcalls[i][Len(wcalls[i])].verb = "CoUninitialize"
               /\ Cardinality({k \in DOMAIN wcalls[i] : wcalls[i][k].verb = "CoUninitialize"}) = 1

C16_Witness ==
    /\ Len(wpc) = 3
    /\ wpc[1] = "done" /\ WorkerDispatched(1)
    /\ wpc[2] = "failed" /\ WorkerDispatched(2)
    /\ wraised[2] = OtherFault
    /\ wcalls[2][Len(wcalls[2]) - 1].verb = "LoadModel"
    /\ wpc[3] = "failed" /\ WorkerDispatched(3)
    /\ wcalls[3][Len(wcalls[3]) - 1].verb = "GetValue"

\* Every call worker i made on a handle comes after its own EnsureDispatch,
\* of which there is one.
OwnHandle(i) ==
    /\ Cardinality({k \in DOMAIN wcalls[i] : wcalls[i][k].verb = "EnsureDispatch"}) <= 1
    /\ \A k \in DOMAIN wcalls[i] :
          wcalls[i][k].verb \notin {"CoInitialize", "EnsureDispatch", "CoUninitialize"}
              => \E j \in 1..(k - 1) : /\ wcalls[i][j].verb = "EnsureDispatch"
                                        /\ wcalls[i][j].ret = Returned(Handle)

\* The tuple of record i holds what the session held at submission.
Captured(i) ==
    /\ pool_params[i].trust_models = trust_models
    /\ pool_params[i].dispatch_string = dispatch_string
    /\ pool_params[i].model_filepath = model
    /\ pool_params[i].path_context = path_context
    /\ pool_params[i].event_controller = event_controller
    /\ pool_params[i].license_type = license_type

\* C17: no step of a batch issues a call on the handle of the session or
\* changes a field of the session; each worker calls on the handle it
\* dispatched itself; and each tuple holds the fields of the session as they
\* were at submission, which is how they still are when the call returns.
C17_WorkersIsolated ==
    [][/\ sessionVars' = sessionVars
       /\ \A i \in DOMAIN pool_params' : OwnHandle(i)' /\ Captured(i)'
       /\ pool_params # <<>> => pool_params' = pool_params]_vars

C17_Witness ==
    /\ batch = "returned"
    /\ Len(pool_params) = 3
    /\ \A i \in Records : wpc[i] = "done" /\ WorkerDispatched(i) /\ Captured(i)
    /\ plantsim = None /\ calls = <<>>

(***************************************************************************)
(* Properties of a run.                                                    *)
(***************************************************************************)
\* Where a sequence of calls has a verb.
Indices(cs, verb) == {k \in DOMAIN cs : cs[k].verb = verb}

IsSetValue(c) == c.verb = "SetValue"

\* The calls of a run are in order, `inputs` being the (name, value) pairs and
\* `outputs` the output names of its record: the inputs are written in record
\* order, all of them before the start; an output is read only after the
\* start returned and a later IsSimulationRunning returned False, which is
\* the last answer of IsSimulationRunning by then; the outputs are read in
\* order; the reset comes after the last of them was read.
RunOrdered(cs, inputs, outputs) ==
    LET sets == SelectSeq(cs, IsSetValue)
        gets == SelectSeq(cs, IsGetValue)
        Polled(k) == \E s \in Indices(cs, "StartSimulation"), j \in Indices(cs, "IsSimulationRunning") :
                        /\ s < j /\ j < k
                        /\ cs[s].ret.t = "return"
                        /\ cs[j].ret.t = "return" /\ cs[j].ret.v = FALSE
                        /\ \A l \in Indices(cs, "IsSimulationRunning") : l < k => l <= j
    IN  /\ Len(sets) <= Len(inputs)
        /\ \A k \in DOMAIN sets : sets[k].args = inputs[k]
        /\ \A k \in Indices(cs, "StartSimulation") :
              /\ \A i \in Indices(cs, "SetValue") : i < k /\ cs[i].ret.t = "return"
              /\ Len(sets) = Len(inputs)
        /\ Len(gets) <= Len(outputs)
        /\ \A k \in DOMAIN gets : gets[k].args = <<outputs[k]>>
        /\ \A k \in Indices(cs, "GetValue") : Polled(k)
        /\ \A k \in Indices(cs, "ResetSimulation") :
              /\ Polled(k)
              /\ \A g \in Indices(cs, "GetValue") : g < k /\ cs[g].ret.t = "return"
              /\ Len(gets) = Len(outputs)

\* The calls of the last run_simulation of the session: from its SetValue on.
SerialRun ==
    LET first == Indices(calls, "SetValue")
    IN  IF first = {} THEN <<>>
        ELSE SubSeq(calls, CHOOSE k \in first : \A l \in first : l <= k, Len(calls))

\* C14: in every run, of a worker and of run_simulation, the calls are in
\* order: every input is written, in record order, before StartSimulation; an
\* output is read only after an IsSimulationRunning issued after the start
\* returned False, and never while the last answer is True; ResetSimulation
\* comes after the last output was read.
C14_RunOrdered ==
    /\ \A i \in Records :
          RunOrdered(wcalls[i], AllPairs(pool_params[i].simulation_data),
                     get_output_variables(pool_params[i].simulation_data))
    /\ outcome.op = "run_simulation"
          => RunOrdered(SerialRun, << <<outcome.arg[1], outcome.arg[2]>> >>, <<outcome.arg[3]>>)

C14_Witness ==
    /\ outcome = Outcome("run_simulation", <<"Input1", PyInt(3), "Out1">>, NoExc)
    /\ Len(SerialRun) = 6
    /\ SerialRun[3].ret = Returned(TRUE)
    /\ Len(wpc) = 1 /\ wpc[1] = "done"
    /\ Len(pool_params[1].simulation_data.input_variables) = 2
    /\ Cardinality(Indices(wcalls[1], "IsSimulationRunning")) = 2

(***************************************************************************)
(* Termination of a batch.                                                 *)
(***************************************************************************)
\* Record i was accounted for: its result was appended or its failure printed.
Accounted(i) ==
    \/ \E k \in DOMAIN order : order[k] = i
    \/ \E r \in reported : r[1] = i

\* Worker i is past its polling loop: it reads outputs, resets or has returned.
PastLoop(i) == wpc[i] \in {"GetValue", "ResetSimulation", "done"}

\* Worker i was told that the simulation does not run.
ToldNotRunning(i) ==
    \E k \in Indices(wcalls[i], "IsSimulationRunning") :
        wcalls[i][k].ret.t = "return" /\ wcalls[i][k].ret.v = FALSE

\* C19: with the processes scheduled fairly and IsSimulationRunning answering
\* False in the end, a batch that was submitted returns, and by then every
\* record is accounted for.  The batch returns only once every worker has
\* ended, and a worker is past its polling loop only if IsSimulationRunning
\* answered False: while the answer stays True nothing else ends the loop,
\* the worker or the batch.
C19_BatchTerminates ==
    /\ (batch = "collecting") ~> (batch = "returned")
    /\ [](batch = "returned"
             => \A i \in Records : wpc[i] \in {"done", "failed"} /\ Accounted(i))
    /\ [](\A i \in Records : PastLoop(i) => ToldNotRunning(i))

C19_Witness ==
    /\ batch = "returned"
    /\ Len(wpc) = 2
    /\ wpc[1] = "done" /\ wpc[2] = "done"
    /\ order = <<2, 1>>
    /\ \A i \in Records : Polls(i) = 1

====
